---------------------------- MODULE Spec2Model ----------------------------
(***************************************************************************)
(* S-H-ESD anomaly detection (nicolasmiller/AnomalyDetection, Python).     *)
(*                                                                         *)
(* The module models                                                       *)
(*   - detect_anoms (src/anomaly/detect_anoms.py): the entry checks, the   *)
(*     generalized ESD loop and the returned timestamps, preceded by the   *)
(*     clamp of max_anoms and the direction lookup of the call site, as    *)
(*     the statements of the two entry points read; specification Spec,    *)
(*     and SpecNulls and SpecLeads for windows with null values;           *)
(*   - detect_ts (src/anomaly/detect_ts.py): the call as the interpreter   *)
(*     executes it, statement by statement, exceptions included;           *)
(*     specification SpecTs;                                               *)
(*   - Decompose (src/anomaly/decompose.py): the argument checks and the   *)
(*     seasonal smoothing; specification SpecDec;                          *)
(*   - detect_vec (src/anomaly/detect_vec.py): the import and call as the  *)
(*     interpreter executes them; specification SpecVec.                   *)
(*                                                                         *)
(* Numbers.  The value column handed to the ESD loop (the remainder after  *)
(* the external stl decomposition and the median shift, lines 65-81) is    *)
(* integer valued here.  Medians are kept doubled (Median2), the mean      *)
(* absolute deviation is kept as its numerator over m*m (MadNum), and the  *)
(* critical value lam is a fixed-point number with LamScale units per 1,   *)
(* so that every comparison of the source is an exact integer comparison.  *)
(***************************************************************************)
EXTENDS Integers, Sequences, FiniteSets

(***************************************************************************)
(* Bounds of the model.                                                    *)
(***************************************************************************)
\* rows a window may have beyond two periods
MaxExtra == 0
\* leading rows whose value is null
MaxLead == 1
\* positions of the window that may carry a spike
NumSpikes == 3
\* rows of a series handed to Decompose; with these lengths every season is
\* shorter than the span of the smallest seasonal kernel (5 rows)
MaxLen == 7

(***************************************************************************)
(* Program constants.                                                      *)
(***************************************************************************)
\* num_obs_per_period: the daily entry of resample_period (7: 'D'), the
\* smallest period detect_anoms accepts
Period == 7
\* fixed-point scale of lam and of the test R > lam
LamScale == 10000

\* max_anoms and alpha in percent
KSet == {5, 15, 49}
AlphaSet == {1, 5}
\* the value a position may be set to; 0 leaves the template's value
SpikeChoices == {-6, 0, 6}
Kinds == {"flat", "noise"}
Directions == {"pos", "neg", "both"}
Callers == {"detect_ts", "detect_vec"}

VARIABLES
    caller,       \* the entry point whose directions table builds the tails
    direction,    \* its direction parameter (validated: pos | neg | both)
    num_obs,      \* len(data) on entry of detect_anoms, null rows included
    lead,         \* number of leading rows whose value is null
    nulls,        \* the rows after the first non-null one whose value is null
    resid,        \* timestamp -> value of the non-null rows after step 1
    k,            \* max_anoms, then the k handed to detect_anoms: the
                  \* fraction k[1] / k[2]
    alpha,        \* percent
    one_tail,
    upper_tail,
    pc,           \* "clamp" | "lookup" | "entry" | "loop" | "after" | "done"
    max_outliers,
    n,
    data,         \* timestamps still in the working frame
    i,            \* the loop variable of the next iteration
    R_idx,
    num_anoms,
    outcome,      \* "none" | "returned" | "ValueError" | "KeyError"
    anoms,        \* result['anoms']; << >> stands for None
    \* detect_ts
    df,           \* the caller's frame: its type, shape, dtype, columns, rows,
                  \* and the spacing of its timestamps (gran)
    args,         \* the keyword arguments of the call
    ts_pc,        \* "idle" | "frame" | "params" | "gran" | "done"
    ts_outcome,   \* "none" | "returned" | "ValueError" | "NameError"
    ts_period,    \* period, line 160; 0 while unassigned
    \* what the statements after line 141 of detect_ts would write
    all_data,     \* the windows, each the set of its timestamps
    ts_flagged,   \* the timestamps detect_anoms has flagged, over all windows
    ts_anoms,     \* the timestamps of result['anoms']
    all_anoms,    \* the merged anomaly rows, by timestamp, in row order
    seasonal_plus_trend,  \* the merged trend+seasonal rows, likewise
    \* Decompose
    s,            \* the argument s: its type, its index and its values
    periods,      \* the argument periods: None, an int or a Series of labels
    constantSeasonal,
    seasonalSmoother,   \* "s3x3" | "s3x5" | "s3x9"
    dec_pc,       \* "idle" | "check" | "steps" | "done"
    dec_outcome,  \* "none" | "returned" | "ValueError" | "TypeError" |
                  \* "IndexError"
    result,       \* the columns period, 4thSeasonalEst and Seasonal of result
    \* detect_vec
    vec_df,       \* the caller's data: its type, its columns, whether its
                  \* values are numeric, its column names and its length
    vec_args,     \* the keyword arguments of the call
    vec_pc,       \* "idle" | "import" | "done"
    vec_outcome,  \* "none" | "returned" | "ValueError" | "SyntaxError"
    \* what the statements of detect_vec would write
    vec_result,   \* the keys of the dict returned
    vec_all_data, \* the windows, each the set of its indices 0 .. N-1
    vec_flagged,  \* the indices detect_anoms has flagged, over all windows
    vec_anoms,    \* the indices of result['anoms']
    vec_num_obs   \* num_obs at line 154; 0 while unassigned

varsEsd == <<caller, direction, num_obs, lead, nulls, resid, k, alpha, one_tail,
             upper_tail, pc, max_outliers, n, data, i, R_idx, num_anoms,
             outcome, anoms>>

varsTs == <<df, args, ts_pc, ts_outcome, ts_period, all_data, ts_flagged, ts_anoms,
            all_anoms, seasonal_plus_trend>>

varsDec == <<s, periods, constantSeasonal, seasonalSmoother, dec_pc,
             dec_outcome, result>>

varsVec == <<vec_df, vec_args, vec_pc, vec_outcome, vec_result, vec_all_data,
             vec_flagged, vec_anoms, vec_num_obs>>

vars == <<varsEsd, varsTs, varsDec, varsVec>>

(***************************************************************************)
(* Helpers.                                                                *)
(***************************************************************************)
Abs(x) == IF x < 0 THEN -x ELSE x

SetMax(S) == CHOOSE x \in S : \A y \in S : y <= x

SetMin(S) == CHOOSE x \in S : \A y \in S : x <= y

RECURSIVE SumOver(_, _)
SumOver(S, f) ==
    IF S = {} THEN 0
    ELSE LET t == CHOOSE x \in S : TRUE
         IN  f[t] + SumOver(S \ {t}, f)

\* range(m): the list 0, 1, ..., m-1
Range(m) == [j \in 1..m |-> j - 1]

\* R_idx[:m]
Prefix(seq, m) == SubSeq(seq, 1, m)

(***************************************************************************)
(* The input family: a flat or a noisy window with spikes at up to         *)
(* NumSpikes positions.                                                    *)
(***************************************************************************)
SpikePos(j) == 3 * j - 1

Template(kind, p) ==
    IF kind = "flat" THEN 0
    ELSE CASE p % 4 = 2 -> 1
           [] p % 4 = 0 -> -1
           [] OTHER -> 0

\* the window's non-null rows: timestamps lead+1 .. rows, values by position
Window(kind, spikes, rows, ld) ==
    [t \in (ld + 1)..rows |->
        LET p == t - ld
        IN  IF \E j \in 1..NumSpikes : SpikePos(j) = p /\ spikes[j] # 0
            THEN spikes[CHOOSE j \in 1..NumSpikes : SpikePos(j) = p]
            ELSE Template(kind, p)]


(***************************************************************************)
(* Statistics of the working frame.  val is the value column (timestamp -> *)
(* value), S the set of timestamps still in the frame.                     *)
(***************************************************************************)
\* the j-th smallest value of the frame
KthSmallest(S, val, j) ==
    CHOOSE v \in {val[t] : t \in S} :
        /\ Cardinality({t \in S : val[t] < v}) < j
        /\ Cardinality({t \in S : val[t] <= v}) >= j

\* Series.median(), doubled: the middle value, or the mean of the two middle
Median2(S, val) ==
    LET m == Cardinality(S)
    IN  IF m % 2 = 1
        THEN 2 * KthSmallest(S, val, (m + 1) \div 2)
        ELSE KthSmallest(S, val, m \div 2) + KthSmallest(S, val, m \div 2 + 1)

\* Series.mad() of pandas is the MEAN absolute deviation about the mean:
\* mad = MadNum / (m * m), with MadNum = sum |m * x - sum x|
MadNum(S, val) ==
    LET m == Cardinality(S)
        total == SumOver(S, val)
        dev == [t \in S |-> Abs(m * val[t] - total)]
    IN  SumOver(S, dev)

\* the median absolute deviation about the median, times 4 (what R's mad
\* and the text's MAD measure, up to a constant factor)
MedianAD4(S, val) ==
    LET m2 == Median2(S, val)
        dev == [t \in S |-> Abs(2 * val[t] - m2)]
    IN  Median2(S, dev)

\* floor(10000 * lam) by the number rem = n - i + 1 of points in the frame,
\* rem = 1..18: lam = t*(n-i) / sqrt((n-i-1+t^2)*(n-i+1)), t the Student-t
\* quantile at p with n-i-1 degrees of freedom (undefined below 3 points)
LamOne01 == <<0, 0, 11546, 14925, 17488, 19442, 20973, 22208, 23231, 24097,
              24842, 25494, 26070, 26584, 27048, 27469, 27854, 28208>>
LamTwo01 == <<0, 0, 11546, 14962, 17636, 19728, 21391, 22743, 23868, 24820,
              25641, 26357, 26989, 27553, 28061, 28520, 28940, 29324>>
LamOne05 == <<0, 0, 11531, 14625, 16713, 18221, 19381, 20316, 21095, 21760,
              22339, 22849, 23305, 23716, 24090, 24432, 24748, 25040>>
LamTwo05 == <<0, 0, 11543, 14812, 17150, 18871, 20199, 21266, 22150, 22899,
              23547, 24115, 24620, 25073, 25483, 25856, 26199, 26515>>

\* lines 139-145: p = 1 - alpha/(n-i+1), or 1 - alpha/(2*(n-i+1)) two-tailed
Lambda(nn, ii, a, oneTail) ==
    LET rem == nn - ii + 1
    IN  IF oneTail
        THEN (IF a = 1 THEN LamOne01 ELSE LamOne05)[rem]
        ELSE (IF a = 1 THEN LamTwo01 ELSE LamTwo05)[rem]

\* t.ppf(p, df) is nan for df <= 0, and then R > lam is False
LambdaDefined(nn, ii) == nn - ii - 1 >= 1

(***************************************************************************)
(* detect_anoms, lines 110-148: one iteration of the ESD loop.             *)
(***************************************************************************)
\* a slip: the lower tail computed like the upper tail
Ares2_UpperOnly(x, med2, oneTail, upperTail) ==
    IF oneTail THEN 2 * x - med2 ELSE Abs(2 * x - med2)

\* lines 114-120, doubled: the deviation of one point from the median
Ares2(x, med2, oneTail, upperTail) ==
    IF oneTail
    THEN IF upperTail THEN 2 * x - med2 ELSE med2 - 2 * x
    ELSE Abs(2 * x - med2)

\* lines 123-125: data_sigma == 0
SigmaIsZero(S, val) == MadNum(S, val) = 0

\* line 147: R > lam, with R = (rmax2 / 2) / (MadNum / m^2)
TestPasses(rmax2, m, madnum, nn, ii, a, oneTail) ==
    /\ LambdaDefined(nn, ii)
    /\ rmax2 * m * m * LamScale > 2 * madnum * Lambda(nn, ii, a, oneTail)

\* a slip: counting the iterations that passed
NextNumAnoms_CountPasses(passes, ii, num) == IF passes THEN num + 1 ELSE num

\* a slip: forgetting what was accepted when a later test fails
NextNumAnoms_ResetOnFail(passes, ii, num) == IF passes THEN ii ELSE 0

\* lines 147-148
NextNumAnoms(passes, ii, num) == IF passes THEN ii ELSE num

\* a fraction given in percent
Percent(kp) == <<kp, 100>>

\* detect_ts.py lines 161-165, detect_vec.py lines 71-74: max_anoms is
\* raised to 1 / float(num_obs), num_obs the length of the caller's series
Clamp(kk, len) == IF kk[1] * len < kk[2] THEN <<1, len>> ELSE kk

\* line 93: int(num_obs * k).  For the lengths of this model the double
\* 1 / float(len) times len is exactly 1.0 (the smallest len for which it
\* is below 1.0, and int() gives 0, is 49)
MaxOutliers(rows, kk) == (rows * kk[1]) \div kk[2]

\* a slip: a candidate whose test failed stays in the frame
EsdStep_KeepsRejected(st, val, nn, a, oneTail, upperTail) ==
    LET S == st.data
        m == Cardinality(S)
        med2 == Median2(S, val)
        ares == [t \in S |-> Ares2(val[t], med2, oneTail, upperTail)]
        madnum == MadNum(S, val)
        rmax2 == SetMax({ares[t] : t \in S})
        idx == SetMin({t \in S : ares[t] = rmax2})
        passes == TestPasses(rmax2, m, madnum, nn, st.i, a, oneTail)
    IN  IF SigmaIsZero(S, val)
        THEN [st EXCEPT !.brk = TRUE]
        ELSE [data |-> IF passes THEN S \ {idx} ELSE S,
              i |-> st.i + 1,
              R_idx |-> [st.R_idx EXCEPT ![st.i] = idx],
              num_anoms |-> NextNumAnoms(passes, st.i, st.num_anoms),
              brk |-> FALSE]

\* the loop state: the frame, the loop variable, R_idx, num_anoms, and
\* whether the loop was left by break
EsdStep(st, val, nn, a, oneTail, upperTail) ==
    LET S == st.data
        m == Cardinality(S)
        med2 == Median2(S, val)
        ares == [t \in S |-> Ares2(val[t], med2, oneTail, upperTail)]
        madnum == MadNum(S, val)
        rmax2 == SetMax({ares[t] : t \in S})
        \* ares[ares == R].index.tolist()[0]: the first row at the maximum
        idx == SetMin({t \in S : ares[t] = rmax2})
        passes == TestPasses(rmax2, m, madnum, nn, st.i, a, oneTail)
    IN  IF SigmaIsZero(S, val)
        THEN [st EXCEPT !.brk = TRUE]
        ELSE [data |-> S \ {idx},
              i |-> st.i + 1,
              R_idx |-> [st.R_idx EXCEPT ![st.i] = idx],
              num_anoms |-> NextNumAnoms(passes, st.i, st.num_anoms),
              brk |-> FALSE]

\* lines 99-106: the state before the first iteration
LoopStart(val, cap) ==
    [data |-> DOMAIN val, i |-> 1, R_idx |-> Range(cap), num_anoms |-> 0,
     brk |-> FALSE]

LoopOver(st, cap) == st.brk \/ st.i > cap

RECURSIVE RunLoop(_, _, _, _, _, _, _)
RunLoop(st, val, nn, cap, a, oneTail, upperTail) ==
    IF LoopOver(st, cap) THEN st
    ELSE RunLoop(EsdStep(st, val, nn, a, oneTail, upperTail),
                 val, nn, cap, a, oneTail, upperTail)

\* lines 150-153: R_idx[:num_anoms], or None (<< >>)
Returned(st) == IF st.num_anoms > 0 THEN Prefix(st.R_idx, st.num_anoms) ELSE << >>

\* the loop and the return of detect_anoms as one function of its inputs
EsdResult(val, cap, a, oneTail, upperTail) ==
    Returned(RunLoop(LoopStart(val, cap), val, Cardinality(DOMAIN val), cap,
                     a, oneTail, upperTail))


(***************************************************************************)
(* The direction tables of the two call sites and the lookup               *)
(* anomaly_direction = directions[direction].                              *)
(***************************************************************************)
\* detect_ts.py lines 202-206
DirectionsTs ==
    [d \in {"pos", "neg", "both"} |->
        CASE d = "pos" -> [one_tail |-> TRUE, upper_tail |-> TRUE]
          [] d = "neg" -> [one_tail |-> TRUE, upper_tail |-> FALSE]
          [] d = "both" -> [one_tail |-> FALSE, upper_tail |-> FALSE]]

\* detect_vec.py lines 98-102: the dict literal has the key 'neg' twice and
\* no key 'both'; the later 'neg' entry is the one kept
DirectionsVec ==
    [d \in {"pos", "neg"} |->
        CASE d = "pos" -> [one_tail |-> TRUE, upper_tail |-> TRUE]
          [] d = "neg" -> [one_tail |-> FALSE, upper_tail |-> FALSE]]

DirectionsOf(c) == IF c = "detect_ts" THEN DirectionsTs ELSE DirectionsVec

(***************************************************************************)
(* detect_anoms: the state machine.                                        *)
(***************************************************************************)
\* no call of detect_ts is under way
TsIdle ==
    /\ df = [kind |-> "DataFrame", shape_ok |-> TRUE, dtype |-> "datetime64",
             columns |-> "timestamp,count", rows |-> 0, gran |-> "day"]
    /\ args = [max_anoms |-> 10, direction |-> "pos", only_last |-> "None",
               threshold |-> "None", e_value_bool |-> TRUE,
               longterm |-> "False", weeks |-> 2, labels_ok |-> TRUE]
    /\ ts_pc = "idle"
    /\ ts_outcome = "none"
    /\ ts_period = 0
    /\ all_data = << >>
    /\ ts_flagged = {}
    /\ ts_anoms = {}
    /\ all_anoms = << >>
    /\ seasonal_plus_trend = << >>

\* no call of Decompose is under way
DecIdle ==
    /\ s = [type |-> "Series", index |-> << >>, values |-> << >>]
    /\ periods = [kind |-> "None", n |-> 0, labels |-> << >>,
                  index |-> << >>]
    /\ constantSeasonal = FALSE
    /\ seasonalSmoother = "s3x5"
    /\ dec_pc = "idle"
    /\ dec_outcome = "none"
    /\ result = [period |-> << >>, est4 |-> << >>, Seasonal |-> << >>]

\* no call of detect_vec is under way
VecIdle ==
    /\ vec_df = [kind |-> "Series", columns |-> 1, numeric |-> TRUE,
                 names |-> "count", rows |-> 0]
    /\ vec_args = [max_anoms |-> 10, direction |-> "pos", period |-> 0,
                   only_last |-> "False", threshold |-> "None",
                   longterm_period |-> 0]
    /\ vec_pc = "idle"
    /\ vec_outcome = "none"
    /\ vec_result = {}
    /\ vec_all_data = << >>
    /\ vec_flagged = {}
    /\ vec_anoms = {}
    /\ vec_num_obs = 0

\* the rows a frame of this family may hold a null in, the leading run
\* apart: two rows next to the first non-null row and the last two rows
NullRows(rows, ld) == {ld + 2, ld + 3, rows - 1, rows}

\* data.dropna(), line 47: the rows whose value is not null
DropNa(val, nl) == [t \in DOMAIN val \ nl |-> val[t]]

\* the calls of detect_anoms: windows of the given kinds and spike values,
\* with a leading run of null values of one of the given lengths, and with
\* or without null values after it
Inputs(kinds, choices, leads, withNulls) ==
    /\ TsIdle
    /\ DecIdle
    /\ VecIdle
    /\ caller \in Callers
    /\ direction \in Directions
    /\ num_obs \in (2 * Period - 1)..(2 * Period + MaxExtra)
    /\ lead \in leads
    /\ nulls \in IF withNulls THEN SUBSET NullRows(num_obs, lead) ELSE {{}}
    /\ \E kind \in kinds, spikes \in [1..NumSpikes -> choices] :
           resid = DropNa(Window(kind, spikes, num_obs, lead), nulls)
    /\ k \in {Percent(kp) : kp \in KSet}
    /\ alpha \in AlphaSet
    /\ one_tail = FALSE
    /\ upper_tail = FALSE
    /\ pc = "clamp"
    /\ max_outliers = 0
    /\ n = 0
    /\ data = {}
    /\ i = 0
    /\ R_idx = << >>
    /\ num_anoms = 0
    /\ outcome = "none"
    /\ anoms = << >>

Init == Inputs(Kinds, SpikeChoices, 0..MaxLead, FALSE)

\* the same calls on the noisy window without spikes, nulls included
InitNulls == Inputs({"noise"}, {0}, 0..MaxLead, TRUE)

\* the leading runs that leave 1 to 4 rows of a window of two periods: the
\* length check of line 34 counts the null rows, the loop does not see them
LongLeads == (2 * Period - 4)..(2 * Period - 1)

\* the calls of Init, and the same calls on windows that are nearly all null
InitLeads == Inputs(Kinds, SpikeChoices, (0..MaxLead) \cup LongLeads, FALSE)

\* the lengths the caller's series may have when it hands a frame of rows
\* rows to detect_anoms: the frame is the whole series (all_data = [df]),
\* or one of the windows of a longterm series
SeriesLens(rows) == {rows, 2 * rows}

\* the call site, before the loop over all_data: the clamp of max_anoms
ClampMaxAnoms ==
    /\ pc = "clamp"
    /\ \E len \in SeriesLens(num_obs) : k' = Clamp(k, len)
    /\ pc' = "lookup"
    /\ UNCHANGED <<caller, direction, num_obs, lead, nulls, resid, alpha, one_tail,
                   upper_tail, max_outliers, n, data, i, R_idx, num_anoms,
                   outcome, anoms>>
    /\ UNCHANGED <<varsTs, varsDec, varsVec>>

\* the call site: directions[direction], then the call of detect_anoms
LookupDirection ==
    /\ pc = "lookup"
    /\ LET tbl == DirectionsOf(caller)
       IN  IF direction \in DOMAIN tbl
           THEN /\ one_tail' = tbl[direction].one_tail
                /\ upper_tail' = tbl[direction].upper_tail
                /\ pc' = "entry"
                /\ outcome' = outcome
           ELSE /\ outcome' = "KeyError"
                /\ pc' = "done"
                /\ UNCHANGED <<one_tail, upper_tail>>
    /\ UNCHANGED <<caller, direction, num_obs, lead, nulls, resid, k, alpha,
                   max_outliers, n, data, i, R_idx, num_anoms, anoms>>
    /\ UNCHANGED <<varsTs, varsDec, varsVec>>

\* line 34
TooShort(rows) == rows < Period * 2

\* ps.isnull(...) of the value column, by row
IsNull(rows, ld, nl) == [r \in 1..rows |-> r <= ld \/ r \in nl]

\* the length of the run-length encoding (itertools.groupby) of a sequence
RunCount(seq) ==
    IF Len(seq) = 0 THEN 0
    ELSE 1 + Cardinality({j \in 1..(Len(seq) - 1) : seq[j] # seq[j + 1]})

\* lines 41-44: more than 3 runs in isnull of [nan] + values + [nan]
NonLeadingNAs(rows, ld, nl) ==
    RunCount(<<TRUE>> \o IsNull(rows, ld, nl) \o <<TRUE>>) > 3

\* a slip: the zero cap goes unnoticed
ZeroCap_Never(cap) == FALSE

\* line 95
ZeroCap(cap) == cap = 0

\* lines 28-106: the checks, the cap, and the state before the loop
Enter ==
    /\ pc = "entry"
    /\ LET cap == MaxOutliers(num_obs, k)
           st == LoopStart(resid, cap)
       IN  IF \/ TooShort(num_obs)
              \/ NonLeadingNAs(num_obs, lead, nulls)
              \/ ZeroCap(cap)
           THEN /\ outcome' = "ValueError"
                /\ pc' = "done"
                /\ UNCHANGED <<max_outliers, n, data, i, R_idx, num_anoms>>
           ELSE /\ max_outliers' = cap
                /\ n' = Cardinality(DOMAIN resid)
                /\ data' = st.data
                /\ i' = st.i
                /\ R_idx' = st.R_idx
                /\ num_anoms' = st.num_anoms
                /\ pc' = IF LoopOver(st, cap) THEN "after" ELSE "loop"
                /\ outcome' = outcome
    /\ UNCHANGED <<caller, direction, num_obs, lead, nulls, resid, k, alpha,
                   one_tail, upper_tail, anoms>>
    /\ UNCHANGED <<varsTs, varsDec, varsVec>>

LoopState ==
    [data |-> data, i |-> i, R_idx |-> R_idx, num_anoms |-> num_anoms,
     brk |-> FALSE]

\* lines 110-148: one iteration; the loop is left by break or after the
\* iteration i = max_outliers
Iterate ==
    /\ pc = "loop"
    /\ LET st == EsdStep(LoopState, resid, n, alpha, one_tail, upper_tail)
       IN  /\ data' = st.data
           /\ i' = st.i
           /\ R_idx' = st.R_idx
           /\ num_anoms' = st.num_anoms
           /\ pc' = IF LoopOver(st, max_outliers) THEN "after" ELSE "loop"
    /\ UNCHANGED <<caller, direction, num_obs, lead, nulls, resid, k, alpha,
                   one_tail, upper_tail, max_outliers, n, outcome, anoms>>
    /\ UNCHANGED <<varsTs, varsDec, varsVec>>

\* lines 150-158
Return ==
    /\ pc = "after"
    /\ anoms' = Returned(LoopState)
    /\ outcome' = "returned"
    /\ pc' = "done"
    /\ UNCHANGED <<caller, direction, num_obs, lead, nulls, resid, k, alpha,
                   one_tail, upper_tail, max_outliers, n, data, i, R_idx,
                   num_anoms>>
    /\ UNCHANGED <<varsTs, varsDec, varsVec>>

Next == ClampMaxAnoms \/ LookupDirection \/ Enter \/ Iterate \/ Return

Spec == Init /\ [][Next]_vars

SpecNulls == InitNulls /\ [][Next]_vars

SpecLeads == InitLeads /\ [][Next]_vars


(***************************************************************************)
(* detect_ts, as the interpreter executes it.  None is written "None" for  *)
(* only_last; threshold's default is the string 'None'.                    *)
(***************************************************************************)
\* no call of detect_anoms is under way
EsdIdle ==
    /\ caller = "detect_ts"
    /\ direction = "pos"
    /\ num_obs = 0
    /\ lead = 0
    /\ nulls = {}
    /\ resid = << >>
    /\ k = Percent(0)
    /\ alpha = 0
    /\ one_tail = FALSE
    /\ upper_tail = FALSE
    /\ pc = "idle"
    /\ max_outliers = 0
    /\ n = 0
    /\ data = {}
    /\ i = 0
    /\ R_idx = << >>
    /\ num_anoms = 0
    /\ outcome = "none"
    /\ anoms = << >>

Frames ==
    [kind : {"DataFrame", "list"},
     shape_ok : BOOLEAN,
     dtype : {"datetime64", "object"},
     columns : {"timestamp,count", "other"},
     rows : {30, 1680},
     gran : {"day", "hr", "sec"}]

Calls ==
    [max_anoms : {0, 2, 60},
     direction : {"pos", "both", "up"},
     only_last : {"None", "day", "hr", "week"},
     threshold : {"None", "p95", "bad"},
     e_value_bool : BOOLEAN,
     longterm : {"True", "False", "other"},
     weeks : {1, 2},
     labels_ok : BOOLEAN]

TsInit ==
    /\ EsdIdle
    /\ DecIdle
    /\ VecIdle
    /\ df \in {f \in Frames : (f.rows = 30) <=> (f.gran = "day")}
    /\ args \in Calls
    /\ ts_pc = "frame"
    /\ ts_outcome = "none"
    /\ ts_period = 0
    /\ all_data = << >>
    /\ ts_flagged = {}
    /\ ts_anoms = {}
    /\ all_anoms = << >>
    /\ seasonal_plus_trend = << >>

\* date_utils.format_timestamp, line 14: the module never imports numpy, so
\* the name np is undefined when the function runs
FormatTimestamp(f) == "NameError"

\* lines 79-86: the error raised, or "ok"
FrameCheck(f) ==
    CASE f.kind # "DataFrame" -> "ValueError"
      [] f.kind = "DataFrame" /\ ~f.shape_ok -> "ValueError"
      [] f.kind = "DataFrame" /\ f.shape_ok /\ f.dtype # "datetime64" ->
             FormatTimestamp(f)
      [] OTHER -> "ok"

\* the truth value of an only_last argument: None is falsy, a non-empty
\* string truthy
Truthy(v) == v # "None"

\* line 106: not only_last and not only_last in ['day', 'hr']
OnlyLastRejected(v) == ~Truthy(v) /\ v \notin {"day", "hr"}

\* lines 92-134: whether a check raises ValueError
ParamsRejected(a) ==
    \/ a.max_anoms > 49
    \/ a.direction \notin {"pos", "neg", "both"}
    \/ OnlyLastRejected(a.only_last)
    \/ a.threshold \notin {"None", "med_max", "p95", "p99"}
    \/ ~a.e_value_bool
    \/ a.longterm \notin {"True", "False"}
    \/ a.weeks < 2
    \/ ~a.labels_ok

\* date_utils.get_gran, lines 37-38: the parameter is named tsdf and the
\* first statement reads indf, a name defined nowhere
GetGran(f) == "NameError"

\* lines 79-89
TsCheckFrame ==
    /\ ts_pc = "frame"
    /\ IF FrameCheck(df) = "ok"
       THEN /\ df' = [df EXCEPT !.columns = "timestamp,count"]
            /\ ts_pc' = "params"
            /\ ts_outcome' = ts_outcome
       ELSE /\ ts_outcome' = FrameCheck(df)
            /\ ts_pc' = "done"
            /\ df' = df
    /\ UNCHANGED <<args, ts_period, all_data, ts_flagged, ts_anoms, all_anoms,
                   seasonal_plus_trend>>
    /\ UNCHANGED <<varsEsd, varsDec, varsVec>>

\* lines 91-139
TsCheckParams ==
    /\ ts_pc = "params"
    /\ IF ParamsRejected(args)
       THEN /\ ts_outcome' = "ValueError"
            /\ ts_pc' = "done"
       ELSE /\ ts_outcome' = ts_outcome
            /\ ts_pc' = "gran"
    /\ UNCHANGED <<df, args, ts_period, all_data, ts_flagged, ts_anoms, all_anoms,
                   seasonal_plus_trend>>
    /\ UNCHANGED <<varsEsd, varsDec, varsVec>>

\* line 141: gran = get_gran(df)
TsGetGran ==
    /\ ts_pc = "gran"
    /\ ts_outcome' = GetGran(df)
    /\ ts_pc' = "done"
    /\ UNCHANGED <<df, args, ts_period, all_data, ts_flagged, ts_anoms, all_anoms,
                   seasonal_plus_trend>>
    /\ UNCHANGED <<varsEsd, varsDec, varsVec>>

TsNext == TsCheckFrame \/ TsCheckParams \/ TsGetGran

SpecTs == TsInit /\ [][TsNext]_vars

(***************************************************************************)
(* Decompose (src/anomaly/decompose.py).  A cell of a column is            *)
(* <<"num", v>>, NaN or Inf.  A mean is the pair <<sum, count>> of the     *)
(* values it averages: it stands for sum / count, and for NaN when         *)
(* count = 0.  The trend estimates come from pandas' rolling mean and from *)
(* the Henderson filter, which are not part of these sources: the model    *)
(* keeps which rows of the first estimate are defined, and takes the       *)
(* column 4thSeasonalEst of step 7 to be any column of numbers and NaN.    *)
(* The index stands for the timestamps of s, and the back- and forward-    *)
(* cast of step 4 (_extendSeries) is taken to succeed.                      *)
(***************************************************************************)
Num(v) == <<"num", v>>

NaN == <<"nan", 0>>

Inf == <<"inf", 0>>

\* the index of s: sorted and unique, with a duplicate, or out of order
SortedIndex(len) == [j \in 1..len |-> j]

IndexChoices(len) ==
    {SortedIndex(len)} \cup
    (IF len >= 2
     THEN {[SortedIndex(len) EXCEPT ![2] = 1], [SortedIndex(len) EXCEPT ![1] = 2, ![2] = 1]}
     ELSE {})

\* the values of s: numbers, of which at most one is replaced by NaN or Inf
BaseValues(len) == [j \in 1..len |-> Num((j % 3) + 1)]

ValueChoices(len) ==
    {BaseValues(len)} \cup
    {[BaseValues(len) EXCEPT ![j] = c] : j \in 1..len, c \in {NaN, Inf}}

CyclicLabels(len) == [j \in 1..len |-> (j - 1) % 2]

\* the argument periods for a series with the given index: None, an int,
\* or a Series of labels whose index is that of s or is not
PeriodsChoices(idx) ==
    LET len == Len(idx)
    IN  {[kind |-> "None", n |-> 0, labels |-> << >>, index |-> << >>]}
        \cup {[kind |-> "int", n |-> p, labels |-> << >>, index |-> << >>] :
                  p \in 0..3}
        \cup {[kind |-> "labels", n |-> 0, labels |-> CyclicLabels(len),
                index |-> idx],
               [kind |-> "labels", n |-> 0, labels |-> [j \in 1..len |-> 0],
                index |-> idx],
               [kind |-> "labels", n |-> 0, labels |-> CyclicLabels(len + 1),
                index |-> SortedIndex(len + 1)],
               [kind |-> "labels", n |-> 0, labels |-> CyclicLabels(len),
                index |-> [j \in 1..len |-> idx[j] + 1]]}

DecInit ==
    /\ EsdIdle
    /\ TsIdle
    /\ VecIdle
    /\ \E len \in 0..MaxLen :
           /\ s \in [type : {"Series", "list"}, index : IndexChoices(len),
                     values : ValueChoices(len)]
           /\ periods \in PeriodsChoices(s.index)
    /\ constantSeasonal \in BOOLEAN
    /\ seasonalSmoother \in {"s3x3", "s3x5", "s3x9"}
    /\ dec_pc = "check"
    /\ dec_outcome = "none"
    /\ result = [period |-> << >>, est4 |-> << >>, Seasonal |-> << >>]

\* line 84: s.index.is_monotonic and s.index.is_unique
IndexOk(idx) ==
    /\ \A j \in 1..(Len(idx) - 1) : idx[j] <= idx[j + 1]
    /\ \A a, b \in 1..Len(idx) : idx[a] = idx[b] => a = b

\* line 86: any(s.isnull()) or not all(np.isfinite(s))
HasNA(values) ==
    \/ \E j \in 1..Len(values) : values[j] = NaN
    \/ ~ \A j \in 1..Len(values) : values[j][1] = "num"

\* line 95: not (len(s) == len(periods) and all(s.index == periods.index))
IndexMismatch(ss, pp) ==
    ~ (/\ Len(ss.values) = Len(pp.labels)
       /\ \A j \in 1..Len(ss.index) : ss.index[j] = pp.index[j])

\* lines 98 and 100: len(periods.unique()), or int(periods)
PeriodCount(pp) ==
    IF pp.kind = "labels"
    THEN Cardinality({pp.labels[j] : j \in 1..Len(pp.labels)})
    ELSE pp.n

\* line 102
PeriodTooSmall(p) == p < 2

\* line 104
NotLongEnough(len, p) == len < (p * 2) + 1

\* lines 79-105: the error raised, or "ok"
DecomposeCheck(ss, pp) ==
    IF pp.kind = "None" THEN "ValueError"
    ELSE IF ss.type # "Series" THEN "TypeError"
    ELSE IF ~IndexOk(ss.index) THEN "ValueError"
    ELSE IF HasNA(ss.values) THEN "ValueError"
    ELSE IF pp.kind = "labels" /\ IndexMismatch(ss, pp) THEN "ValueError"
    ELSE IF PeriodTooSmall(PeriodCount(pp)) THEN "ValueError"
    ELSE IF NotLongEnough(Len(ss.values), PeriodCount(pp)) THEN "ValueError"
    ELSE "ok"

\* lines 97 and 101: result['period'], for periods >= 2
PeriodColumn(ss, pp) ==
    IF pp.kind = "labels" THEN pp.labels
    ELSE [j \in 1..Len(ss.values) |-> (j - 1) % pp.n]

\* result['period'].unique(): the labels in the order of their first row
RECURSIVE UniqueFrom(_, _)
UniqueFrom(col, seen) ==
    IF col = << >> THEN << >>
    ELSE IF Head(col) \in seen THEN UniqueFrom(Tail(col), seen)
    ELSE <<Head(col)>> \o UniqueFrom(Tail(col), seen \cup {Head(col)})

Unique(col) == UniqueFrom(col, {})

\* thisSeason.mean(skipna=True) over the given rows of a column
MeanSkipNa(rows, col) ==
    LET defined == {j \in rows : col[j][1] = "num"}
        val == [j \in defined |-> col[j][2]]
    IN  <<SumOver(defined, val), Cardinality(defined)>>

NotNull(mean) == mean[2] > 0

\* a slip: the season's values written over the whole column
Where_Overwrite(col, rows, mean) ==
    [j \in 1..Len(col) |-> IF j \in rows THEN mean ELSE <<0, 0>>]

\* lines 227-228: result[newColumn].where(result[newColumn].notnull(),
\* other=thisSeasonSmoothed), thisSeasonSmoothed being mean on the rows of
\* the season and absent elsewhere
Where(col, rows, mean) ==
    [j \in 1..Len(col) |->
        IF NotNull(col[j]) THEN col[j]
        ELSE IF j \in rows THEN mean ELSE <<0, 0>>]

\* len(seasonalSmoother), lines 12-32 and 181
KernelOrder(smoother) ==
    CASE smoother = "s3x3" -> 3
      [] smoother = "s3x5" -> 4
      [] smoother = "s3x9" -> 6

\* line 192, and line 202 when the seasonal is not constant: the rows of
\* thisSeason
SeasonRows(period, col, u, constSeas) ==
    {j \in 1..Len(period) :
        period[j] = u /\ (constSeas \/ col[j] # NaN)}

\* lines 215-216: thisSeasonSmoothed.iat[i] is read for every i in
\* range(kS-1), and raises IndexError when thisSeason has fewer rows
EndPointsRaise(period, col, smoother) ==
    \E j \in 1..Len(period) :
        Cardinality(SeasonRows(period, col, period[j], FALSE))
            < KernelOrder(smoother) - 1

\* lines 189-228: the loop over the labels.  A season shorter than the
\* kernel's span gets no value from rolling_apply, so lines 209-212 give it
\* its mean, as lines 196-197 do for a constant seasonal
RECURSIVE SmoothFrom(_, _, _, _, _)
SmoothFrom(col, labels, period, est, constSeas) ==
    IF labels = << >> THEN col
    ELSE LET rows == SeasonRows(period, est, Head(labels), constSeas)
         IN  SmoothFrom(Where(col, rows, MeanSkipNa(rows, est)), Tail(labels),
                        period, est, constSeas)

\* _smoothSeasonalComponent, lines 176-230
SmoothSeasonalComponent(period, est, constSeas) ==
    SmoothFrom([j \in 1..Len(period) |-> <<0, 0>>], Unique(period), period,
               est, constSeas)

\* lines 115-123: the column 1stSeasonalEst is defined where the centred
\* rolling mean of window periods+1 with min_periods=periods+1 is
FirstSeasonalEst(len, p) ==
    LET offset == p \div 2
    IN  [j \in 1..len |->
            IF j >= p + 1 - offset /\ j <= len - offset THEN Num(0) ELSE NaN]

\* the columns 4thSeasonalEst that steps 1 to 7 may leave
EstChoices(len) ==
    {[j \in 1..len |-> IF j \in na THEN NaN ELSE Num(((b * j * j) % 5) - 2)] :
        na \in SUBSET (1..len), b \in {1, 2}}

\* lines 79-105
DecCheck ==
    /\ dec_pc = "check"
    /\ IF DecomposeCheck(s, periods) = "ok"
       THEN /\ result' = [result EXCEPT !.period = PeriodColumn(s, periods)]
            /\ dec_pc' = "steps"
            /\ dec_outcome' = dec_outcome
       ELSE /\ dec_outcome' = DecomposeCheck(s, periods)
            /\ dec_pc' = "done"
            /\ result' = result
    /\ UNCHANGED <<s, periods, constantSeasonal, seasonalSmoother>>
    /\ UNCHANGED <<varsEsd, varsTs, varsVec>>

\* lines 107-172: the steps of the decomposition and the return
DecSteps ==
    /\ dec_pc = "steps"
    /\ LET len == Len(s.values)
           est1 == FirstSeasonalEst(len, PeriodCount(periods))
       IN  IF /\ ~constantSeasonal
              /\ EndPointsRaise(result.period, est1, seasonalSmoother)
           THEN \* step 3
                /\ dec_outcome' = "IndexError"
                /\ result' = result
           ELSE \E est \in EstChoices(len) :
                    IF /\ ~constantSeasonal
                       /\ EndPointsRaise(result.period, est, seasonalSmoother)
                    THEN \* step 7
                         /\ dec_outcome' = "IndexError"
                         /\ result' = [result EXCEPT !.est4 = est]
                    ELSE /\ dec_outcome' = "returned"
                         /\ result' =
                                [result EXCEPT
                                    !.est4 = est,
                                    !.Seasonal = SmoothSeasonalComponent(
                                        result.period, est, constantSeasonal)]
    /\ dec_pc' = "done"
    /\ UNCHANGED <<s, periods, constantSeasonal, seasonalSmoother>>
    /\ UNCHANGED <<varsEsd, varsTs, varsVec>>

DecNext == DecCheck \/ DecSteps

SpecDec == DecInit /\ [][DecNext]_vars

(***************************************************************************)
(* detect_vec, as the interpreter executes it.  None is written 0 for      *)
(* period and longterm_period; max_anoms is in percent.                    *)
(***************************************************************************)
\* the data a caller passes: a DataFrame of one or two columns, a Series or
\* a list, of numbers or of strings
VecData ==
    [kind : {"DataFrame", "Series", "list"},
     columns : {1, 2},
     numeric : BOOLEAN,
     names : {"count", "value"},
     rows : {27, 28, 30}]

VecCalls ==
    [max_anoms : {2, 60},
     direction : {"pos", "both"},
     period : {0, 7},
     only_last : {"True", "False"},
     threshold : {"None", "p95"},
     longterm_period : {0, 14}]

VecInit ==
    /\ EsdIdle
    /\ TsIdle
    /\ DecIdle
    /\ vec_df \in {d \in VecData : d.kind # "DataFrame" => d.columns = 1}
    /\ vec_args \in VecCalls
    /\ vec_pc = "import"
    /\ vec_outcome = "none"
    /\ vec_result = {}
    /\ vec_all_data = << >>
    /\ vec_flagged = {}
    /\ vec_anoms = {}
    /\ vec_num_obs = 0

\* detect_vec.py is compiled as a whole when it is first imported.  Lines
\* 17 (count=df=iloc[:,0]), 83 (an unmatched parenthesis) and 217 (a
\* missing comma) are not Python, so the import raises SyntaxError and the
\* name detect_vec is never bound
CompileDetectVec == "SyntaxError"

\* the caller's import of detect_vec and its call
VecImport ==
    /\ vec_pc = "import"
    /\ vec_outcome' = CompileDetectVec
    /\ vec_pc' = "done"
    /\ UNCHANGED <<vec_df, vec_args, vec_result, vec_all_data, vec_flagged,
                   vec_anoms, vec_num_obs>>
    /\ UNCHANGED <<varsEsd, varsTs, varsDec>>

VecNext == VecImport

SpecVec == VecInit /\ [][VecNext]_vars

(***************************************************************************)
(* What the properties below speak of.                                     *)
(***************************************************************************)
Finished == pc = "done" /\ outcome = "returned"

\* the iterations that recorded a candidate so far
Iterations == 1..(i - 1)

\* the frame at the start of iteration j: the rows less the candidates of
\* the iterations before it
FrameBefore(j) == DOMAIN resid \ {R_idx[q] : q \in 1..(j - 1)}

\* the largest deviation of the frame at the start of iteration j
MaxAres2(j) ==
    LET S == FrameBefore(j)
        med2 == Median2(S, resid)
    IN  SetMax({Ares2(resid[t], med2, one_tail, upper_tail) : t \in S})

\* whether R exceeded lam in iteration j
PassedAt(j) ==
    LET S == FrameBefore(j)
    IN  TestPasses(MaxAres2(j), Cardinality(S), MadNum(S, resid), n, j,
                   alpha, one_tail)

\* the last iteration at which the test passed, 0 if none did
LastPass == SetMax({0} \cup {j \in Iterations : PassedAt(j)})

\* C1: detect_anoms returns exactly the first num_anoms candidates in
\* detection order, num_anoms being the largest iteration index at which R
\* exceeded lam; candidates of earlier iterations that failed the test are
\* included, and the result is None (<< >>) when no iteration passed.
C1_ReturnsPrefixUpToLastPass ==
    Finished =>
        /\ Len(anoms) = LastPass
        /\ \A j \in 1..LastPass :
               /\ anoms[j] = R_idx[j]
               /\ anoms[j] \in FrameBefore(j)
               /\ Ares2(resid[anoms[j]], Median2(FrameBefore(j), resid),
                        one_tail, upper_tail) = MaxAres2(j)

\* a returned list that holds a candidate whose own test failed
C1_Witness ==
    /\ Finished
    /\ \E j \in 1..Len(anoms) : ~PassedAt(j)

\* C2 (as claimed): the number of timestamps returned never exceeds
\* floor(N * k), N the number of observations the ESD loop tests.
C2_AtMostFractionOfTested ==
    Finished => Len(anoms) <= (n * k[1]) \div k[2]

\* the results for a smaller fraction of the same window
SmallerK ==
    {k1 \in KSet : /\ k1 * k[2] <= 100 * k[1]
                   /\ MaxOutliers(num_obs, Percent(k1)) >= 1}

ResultFor(k1) ==
    EsdResult(resid, MaxOutliers(num_obs, Percent(k1)), alpha, one_tail,
              upper_tail)

\* C3: for a fixed window, alpha and direction, a fraction k1 <= k accepts
\* no more anomalies than k does, and accepts them in the same order.
C3_MonotoneInK ==
    Finished =>
        \A k1 \in SmallerK :
            /\ Len(ResultFor(k1)) <= Len(anoms)
            /\ ResultFor(k1) = Prefix(anoms, Len(ResultFor(k1)))

\* a larger fraction that accepts strictly more
C3_Witness ==
    /\ Finished
    /\ \E k1 \in SmallerK : 0 < Len(ResultFor(k1)) /\ Len(ResultFor(k1)) < Len(anoms)

\* C4 (as claimed): an iteration that finds the median absolute deviation
\* of the remaining points 0 stops the loop: no candidate is ever recorded
\* from such a frame, and a constant window yields no anomaly.
C4_StopsOnZeroMedianAD ==
    pc \in {"loop", "after", "done"} =>
        \A j \in Iterations : MedianAD4(FrameBefore(j), resid) # 0

\* C5: whenever the cap int(num_obs * k) is 0, detect_anoms raises: the
\* loop is never entered and nothing is returned.
C5_ZeroCapRaises ==
    (pc \notin {"clamp", "lookup", "entry"} /\ outcome # "KeyError"
        /\ MaxOutliers(num_obs, k) = 0) =>
        /\ pc = "done"
        /\ outcome = "ValueError"
        /\ i = 0
        /\ R_idx = << >>
        /\ anoms = << >>

\* the raise is due to the cap alone
C5_Witness ==
    /\ pc = "done"
    /\ outcome = "ValueError"
    /\ ~TooShort(num_obs)
    /\ MaxOutliers(num_obs, k) = 0

\* the translation the text gives
ClaimedTails(d) ==
    CASE d = "pos" -> <<TRUE, TRUE>>
      [] d = "neg" -> <<TRUE, FALSE>>
      [] d = "both" -> <<FALSE, FALSE>>

\* C6 (as claimed): at both call sites the lookup is defined for pos, neg
\* and both, and gives (True, True), (True, False) and (False, False).
C6_DirectionLookup ==
    pc \notin {"clamp", "lookup"} =>
        /\ outcome # "KeyError"
        /\ <<one_tail, upper_tail>> = ClaimedTails(direction)

Negated(val) == [t \in DOMAIN val |-> -val[t]]

\* C7: the one-tailed test on the window with upper_tail, and on the
\* negated window with the other tail, flag the same positions in the same
\* order.
C7_TailSymmetry ==
    (Finished /\ one_tail) =>
        anoms = EsdResult(Negated(resid), max_outliers, alpha, TRUE, ~upper_tail)

C7_Witness ==
    /\ Finished
    /\ one_tail
    /\ ~upper_tail
    /\ Len(anoms) >= 2


(***************************************************************************)
(* detect_ts: the claims.                                                  *)
(***************************************************************************)
TsDone == ts_pc = "done"

\* a call the text accepts: a two-column numeric frame with parsed
\* timestamps, and every argument within its documented range
ValidCall ==
    /\ df.kind = "DataFrame"
    /\ df.shape_ok
    /\ df.dtype = "datetime64"
    /\ args.max_anoms <= 49
    /\ args.direction \in {"pos", "neg", "both"}
    /\ args.only_last \in {"None", "day", "hr"}
    /\ args.threshold \in {"None", "med_max", "p95", "p99"}
    /\ args.e_value_bool
    /\ args.longterm \in {"True", "False"}
    /\ args.weeks >= 2
    /\ args.labels_ok

\* C8 (as claimed): with no threshold and no only_last restriction the call
\* returns, and the rows it returns are exactly the rows of the input whose
\* timestamp detect_anoms flagged in some window.
C8_ReturnsFlaggedRows ==
    (TsDone /\ ValidCall /\ args.threshold = "None" /\ args.only_last = "None") =>
        /\ ts_outcome = "returned"
        /\ ts_anoms = ts_flagged
        /\ ts_anoms \subseteq 1..df.rows

\* lines 155-159
GranPeriod(g) == CASE g = "min" -> 1440 [] g = "hr" -> 24 [] g = "day" -> 7

\* the window length the text gives
WindowLen ==
    IF df.gran = "day"
    THEN GranPeriod(df.gran) * args.weeks + 1
    ELSE GranPeriod(df.gran) * 7 * args.weeks

CeilDiv(a, b) == (a + b - 1) \div b

\* C9 (as claimed): with longterm=True the series is partitioned into
\* ceil(N / window_len) windows of window_len observations each, the last
\* one ending at the last timestamp.
C9_UniformWindows ==
    (TsDone /\ ValidCall /\ args.longterm = "True" /\ df.gran \in {"day", "hr"}
        /\ df.rows >= WindowLen) =>
        /\ Len(all_data) = CeilDiv(df.rows, WindowLen)
        /\ \A w \in 1..Len(all_data) :
               /\ all_data[w] \subseteq 1..df.rows
               /\ Cardinality(all_data[w]) = WindowLen
        /\ all_data[Len(all_data)] = (df.rows - WindowLen + 1)..df.rows

\* the rows of the trailing day or hour, in rows before the last one
TrailingRows ==
    IF df.gran = "hr" /\ args.only_last = "day" THEN 24 ELSE 1

\* C10 (as claimed): with only_last = 'day' or 'hr' the call returns the
\* flagged timestamps of the trailing day or hour, and only those.
C10_OnlyLastKeepsTrailing ==
    (TsDone /\ ValidCall /\ args.only_last \in {"day", "hr"}) =>
        /\ ts_outcome = "returned"
        /\ ts_anoms = {t \in ts_flagged : t > df.rows - TrailingRows}

\* the frame and every argument passed the checks of lines 79-134
PassedValidation == FrameCheck(df) = "ok" /\ ~ParamsRejected(args)

\* the call was rejected by one of the argument checks of lines 91-134
RejectedByParams ==
    FrameCheck(df) = "ok" /\ ts_pc = "done" /\ ts_outcome = "ValueError"

\* the flagged timestamps within the only_last scope
InScope ==
    IF args.only_last = "None" THEN ts_flagged
    ELSE {t \in ts_flagged : t > df.rows - TrailingRows}

\* C11 (as claimed): a valid call returns normally also when no anomaly
\* survives, and the result it returns is None or empty exactly when no
\* flagged timestamp is left within the only_last scope.
C11_EmptyResultReturned ==
    (TsDone /\ ValidCall) =>
        /\ ts_outcome = "returned"
        /\ (ts_anoms = {}) <=> (InScope = {})

\* the other arguments pass the checks of the code
OthersPass(field) ==
    CASE field = "max_anoms" -> ~ParamsRejected([args EXCEPT !.max_anoms = 10])
      [] field = "only_last" -> ~ParamsRejected([args EXCEPT !.only_last = "day"])

\* C12 (as claimed): validation rejects with ValueError every max_anoms
\* <= 0 and every max_anoms >= 0.5, and rejects no max_anoms in (0, 0.49].
C12_MaxAnomsValidated ==
    (FrameCheck(df) = "ok" /\ ts_pc \notin {"frame", "params"}) =>
        /\ (args.max_anoms <= 0 \/ args.max_anoms >= 50) => RejectedByParams
        /\ (args.max_anoms \in 1..49 /\ OthersPass("max_anoms")) =>
               ~RejectedByParams

\* C13 (as claimed): validation accepts only_last = None, 'day' and 'hr',
\* and rejects every other value with ValueError.
C13_OnlyLastValidated ==
    (FrameCheck(df) = "ok" /\ ts_pc \notin {"frame", "params"}
        /\ OthersPass("only_last")) =>
        (RejectedByParams <=> args.only_last \notin {"None", "day", "hr"})

\* the timestamps of a sequence of rows
RowsOf(rows) == {rows[j] : j \in 1..Len(rows)}

\* the rows of all windows
Covered == UNION {all_data[w] : w \in 1..Len(all_data)}

\* C14 (as claimed): with threshold = 'None' the call skips the
\* thresholding step: it returns, every flagged timestamp is among the
\* merged anomalies, and the trend+seasonal rows of every window are merged.
C14_NoThresholdStillMerges ==
    (TsDone /\ ValidCall /\ args.threshold = "None") =>
        /\ ts_outcome = "returned"
        /\ RowsOf(all_anoms) = ts_flagged
        /\ RowsOf(seasonal_plus_trend) = Covered
        /\ Covered = 1..df.rows

NoDuplicates(rows) ==
    \A a, b \in 1..Len(rows) : rows[a] = rows[b] => a = b

\* C15 (as claimed): a longterm call completes its merge step, and the
\* merged anomalies and the merged trend+seasonal rows then hold each
\* timestamp at most once, overlapping windows included.
C15_MergedRowsUnique ==
    (TsDone /\ ValidCall /\ args.longterm = "True") =>
        /\ ts_outcome = "returned"
        /\ Len(all_data) >= 1
        /\ RowsOf(all_anoms) = ts_flagged
        /\ NoDuplicates(all_anoms)
        /\ NoDuplicates(seasonal_plus_trend)

\* C16 (as claimed): on a frame of sub-minute spacing a call that passed
\* validation goes on with the minute-level period of 1440 observations:
\* neither get_gran nor the granularity-to-period lookup fails.
C16_SubMinuteUsesMinutePeriod ==
    (TsDone /\ PassedValidation /\ df.gran = "sec") =>
        /\ ts_outcome \notin {"NameError", "KeyError"}
        /\ ts_period = 1440

(***************************************************************************)
(* detect_anoms and its call site: the claims about the clamp and about    *)
(* null values.                                                            *)
(***************************************************************************)
\* C17 (as claimed): once max_anoms has been clamped, the cap
\* int(num_obs * k) of every frame detect_anoms analyses, the whole series
\* or a longterm window, is at least 1, and the call does not end in the
\* zero-cap error.
C17_ClampKeepsCapPositive ==
    (pc # "clamp" /\ ~TooShort(num_obs)) =>
        /\ MaxOutliers(num_obs, k) >= 1
        /\ ~(pc = "done" /\ outcome = "ValueError")

\* C18 (as claimed): detect_anoms raises ValueError exactly when the value
\* column holds a null after its first non-null value; a column whose only
\* nulls are leading ones is accepted, and those nulls are stripped.
C18_NonLeadingNullsRaise ==
    (pc \notin {"clamp", "lookup", "entry"} /\ outcome # "KeyError"
        /\ ~TooShort(num_obs)) =>
        /\ nulls # {} => (pc = "done" /\ outcome = "ValueError")
        /\ (nulls = {} /\ MaxOutliers(num_obs, k) >= 1) =>
               /\ ~(pc = "done" /\ outcome = "ValueError")
               /\ n = num_obs - lead
               /\ DOMAIN resid = (lead + 1)..num_obs

(***************************************************************************)
(* Decompose: the claims.                                                  *)
(***************************************************************************)
\* s is a Series and periods is an int, or a Series of labels on the index
\* of s
WellTyped ==
    /\ s.type = "Series"
    /\ periods.kind # "None"
    /\ periods.kind = "labels" => (periods.index = s.index)

\* the number of phases the argument periods stands for
ClaimedPeriod ==
    IF periods.kind = "labels"
    THEN Cardinality({periods.labels[j] : j \in DOMAIN periods.labels})
    ELSE periods.n

\* the failure conditions the text lists
NullOrNonFinite == \E j \in DOMAIN s.values : s.values[j] \in {NaN, Inf}

UnsortedOrDuplicate ==
    \E a, b \in DOMAIN s.index : a < b /\ s.index[a] >= s.index[b]

BadPeriodOrLength ==
    /\ periods.kind # "None"
    /\ \/ ClaimedPeriod < 2
       \/ Len(s.values) < 2 * ClaimedPeriod + 1

Listed == NullOrNonFinite \/ UnsortedOrDuplicate \/ BadPeriodOrLength

Raised == dec_pc = "done" /\ dec_outcome \in {"ValueError", "TypeError"}

\* C19 (as claimed): Decompose raises ValueError or TypeError, and builds
\* no decomposition, for every input with a null or non-finite value, an
\* unsorted or duplicate index, a period below 2 or fewer than 2*period + 1
\* rows; every other well-typed call is accepted and returns its
\* decomposition.
C19_DecomposeRejects ==
    dec_pc \in {"steps", "done"} =>
        /\ Listed => (Raised /\ result.Seasonal = << >>)
        /\ (WellTyped /\ ~Listed) =>
               /\ dec_outcome \in {"none", "returned"}
               /\ dec_pc = "done" => Len(result.Seasonal) = Len(s.values)

\* the rows that share the phase label of row a
PhaseOf(a) == {j \in DOMAIN result.period : result.period[j] = result.period[a]}

\* the rows among them whose estimate of step 7 is defined
DefinedIn(rows) == {j \in rows : result.est4[j] # NaN}

EstSum(rows) ==
    SumOver(DefinedIn(rows), [j \in DefinedIn(rows) |-> result.est4[j][2]])

\* C20: in the result of Decompose with constantSeasonal=True, two rows of
\* the same phase label have the same Seasonal value, and that value is the
\* mean of the defined estimates of step 7 of the phase (NaN when the phase
\* has none).
C20_ConstantSeasonalIsPhaseMean ==
    (dec_outcome = "returned" /\ constantSeasonal) =>
        \A a \in DOMAIN result.Seasonal :
            /\ \A b \in PhaseOf(a) : result.Seasonal[b] = result.Seasonal[a]
            /\ IF DefinedIn(PhaseOf(a)) = {}
               THEN result.Seasonal[a][2] = 0
               ELSE /\ result.Seasonal[a][2] > 0
                    /\ result.Seasonal[a][1] * Cardinality(DefinedIn(PhaseOf(a)))
                           = EstSum(PhaseOf(a)) * result.Seasonal[a][2]

\* a phase of several rows, one of them without an estimate, and a mean
\* that is not 0
C20_Witness ==
    /\ dec_outcome = "returned"
    /\ constantSeasonal
    /\ \E a \in DOMAIN result.Seasonal :
           /\ Cardinality(PhaseOf(a)) >= 3
           /\ DefinedIn(PhaseOf(a)) # PhaseOf(a)
           /\ Cardinality(DefinedIn(PhaseOf(a))) >= 2
           /\ result.Seasonal[a][1] # 0
           /\ result.est4[a] = NaN


(***************************************************************************)
(* The caller's inputs.                                                    *)
(***************************************************************************)
\* the frame handed to detect_anoms: its rows and where its nulls are
EsdInput == <<num_obs, lead, nulls, resid>>

\* C21 (as claimed): no step of detect_ts, detect_vec, detect_anoms or
\* Decompose changes the caller's series or frame (its values, its index,
\* its column names), whether the call returns or raises.
C21_InputsUnchanged ==
    [][/\ df' = df
       /\ vec_df' = vec_df
       /\ EsdInput' = EsdInput
       /\ s' = s
       /\ periods' = periods]_vars

(***************************************************************************)
(* detect_anoms: the working set of the ESD loop.                          *)
(***************************************************************************)
\* the rows of the frame of iteration j at the largest deviation
AtMax(j) ==
    LET S == FrameBefore(j)
        med2 == Median2(S, resid)
    IN  {t \in S : Ares2(resid[t], med2, one_tail, upper_tail) = MaxAres2(j)}

InLoop == pc \in {"loop", "after"} \/ Finished

\* C23: every iteration that does not stop on a zero deviation measure
\* records exactly one row, the first of those at the largest deviation,
\* and removes it from the working frame whether or not R exceeded lam;
\* the loop is left early only by that stop.  Hence after i iterations the
\* frame holds n - i rows, the candidates are pairwise distinct, and the
\* frame is never empty.
C23_OneCandidatePerIteration ==
    InLoop =>
        /\ \A j \in Iterations :
               /\ ~SigmaIsZero(FrameBefore(j), resid)
               /\ R_idx[j] \in AtMax(j)
               /\ \A t \in AtMax(j) : R_idx[j] <= t
        /\ \A j1, j2 \in Iterations : j1 # j2 => R_idx[j1] # R_idx[j2]
        /\ data = FrameBefore(i)
        /\ Cardinality(data) = n - (i - 1)
        /\ data # {}
        /\ (pc # "loop" /\ i <= max_outliers) => SigmaIsZero(data, resid)

\* an iteration whose test failed removed its row all the same, and chose it
\* among several rows at the largest deviation; the loop then went on until
\* a single row was left
C23_Witness ==
    /\ Finished
    /\ \E j \in Iterations : ~PassedAt(j) /\ Cardinality(AtMax(j)) > 1
    /\ Cardinality(data) = 1
    /\ i <= max_outliers


(***************************************************************************)
(* detect_vec: the claims.                                                 *)
(***************************************************************************)
VecDone == vec_pc = "done"

\* the data the text accepts: a one-column DataFrame, a Series or a plain
\* list, of numbers
AcceptedData ==
    /\ vec_df.numeric
    /\ vec_df.kind = "DataFrame" => vec_df.columns = 1

\* every argument within its documented range, and the period given
ValidVecCall ==
    /\ vec_args.max_anoms <= 49
    /\ vec_args.direction \in {"pos", "neg", "both"}
    /\ vec_args.period > 0
    /\ vec_args.only_last \in {"True", "False"}
    /\ vec_args.threshold \in {"None", "med_max", "p95", "p99"}

\* C22 (as claimed): detect_vec accepts a one-column DataFrame, a Series or
\* a plain list of numbers and returns a dict with the two entries 'anoms'
\* and 'plot'; data of any other shape or type is rejected with ValueError.
C22_AcceptsVectorInputs ==
    VecDone =>
        /\ (AcceptedData /\ ValidVecCall) =>
               vec_outcome = "returned" /\ vec_result = {"anoms", "plot"}
        /\ ~AcceptedData => vec_outcome = "ValueError"


\* the indices of the implicit index of the caller's data
VecIndex == 0..(vec_df.rows - 1)

\* C24 (as claimed): with longterm_period = L and a series of N >= L
\* observations, every window in all_data holds exactly L observations,
\* the last one being the trailing L observations, and every observation
\* lies in some window.
C24_VecWindowsFullLength ==
    (VecDone /\ AcceptedData /\ ValidVecCall /\ vec_args.longterm_period > 0
        /\ vec_df.rows >= vec_args.longterm_period) =>
        /\ Len(vec_all_data) >= 1
        /\ \A w \in 1..Len(vec_all_data) :
               /\ vec_all_data[w] \subseteq VecIndex
               /\ Cardinality(vec_all_data[w]) = vec_args.longterm_period
        /\ vec_all_data[Len(vec_all_data)] =
               (vec_df.rows - vec_args.longterm_period)..(vec_df.rows - 1)
        /\ UNION {vec_all_data[w] : w \in 1..Len(vec_all_data)} = VecIndex

\* the last period observations
LastPeriod == (vec_df.rows - vec_args.period)..(vec_df.rows - 1)

\* C25 (as claimed): with only_last=True the call keeps an anomaly exactly
\* when its index is among the last period observations, and the number of
\* observations the anomaly rate is taken over is period.
C25_OnlyLastIsLastPeriod ==
    (VecDone /\ AcceptedData /\ ValidVecCall /\ vec_args.only_last = "True") =>
        /\ vec_outcome = "returned"
        /\ vec_anoms = vec_flagged \cap LastPeriod
        /\ vec_num_obs = vec_args.period

====
